---- MODULE Spec2Model ----
(***************************************************************************)
(* Model of octopart/api.py: the batched, concurrently dispatched `match`  *)
(* operation.  One call of match is followed from its arguments to its     *)
(* return or raise; the worker threads of the ThreadPoolExecutor run       *)
(* interleaved with the calling thread.                                    *)
(***************************************************************************)
EXTENDS Integers, Sequences, FiniteSets, TLC

\* ------------------------------------------------------------------ bounds
MaxMpns == 3          \* longest identifier list passed to match
MaxSellers == 2       \* longest sellers list passed to match
MaxChunkSize == 3     \* largest batch size configured for utils.chunked
PoolSellers == 6      \* sellers per identifier in the large-pool scenario
MaxRepeats == 2       \* most further calls of match the caller makes in one run

Ids == {"A", "B"}
SellerNames == {"X", "Y"}
Behaviours == {"faithful", "short", "long", "error"}

\* the collaborators match is run against: one that answers every query
\* faithfully and raises on the chunks holding a bad identifier, and ones
\* that never raise but answer with too few, too many or error-marked entries
Collaborators ==
    [behaviour : {"faithful"}, bad : SUBSET Ids]
        \cup [behaviour : Behaviours, bad : {{}}]

\* defaults of match's keyword arguments (lines 23-25)
DefaultFlags == <<FALSE, FALSE, FALSE>>

\* --------------------------------------------------------- program constant
MAX_REQUEST_THREADS == 10

\* ------------------------------------------------------------ small helpers
None == <<>>
Some(x) == <<x>>

Min(a, b) == IF a < b THEN a ELSE b

SeqsUpTo(S, n) == UNION {[1..k -> S] : k \in 0..n}

RECURSIVE Flatten(_)
Flatten(ss) ==
    IF ss = <<>> THEN <<>> ELSE Head(ss) \o Flatten(Tail(ss))

\* ------------------------------------------------------------------- state
VARIABLES
    pc,            \* position of the thread that called match
    mpns,          \* argument: list of identifiers
    sellers,       \* argument: [given |-> FALSE] is None, else the list
    specs, imagesets, descriptions,   \* argument flags
    chunksize,     \* batch size utils.chunked is configured with
    behaviour,     \* collaborator: how client.match answers a chunk
    bad,           \* collaborator: identifiers whose chunk makes it raise
    client,        \* local of match and of search: None, or Some(instance)
    unique_mpns,   \* local of match
    queries,       \* local of match
    chunks,        \* the chunks handed to pool.map
    fstate,        \* per submitted future: PENDING, RUNNING or FINISHED
    fresult,       \* per submitted future: None or Some(response)
    fexc,          \* per submitted future: None or Some(exception)
    calls,         \* collaborator: the calls client.match has received in this call of match
    call_clients,  \* per call in calls: the client instance it went through
    nextr,         \* index of the next response the comprehension takes
    acc,           \* the list the comprehension is building
    result,        \* None, or Some(value) once match or search has returned
    error,         \* None, or Some(exception) once match or search has raised
    search_args,   \* arguments of search, as a record
    search_calls,  \* collaborator: the calls client.search has received
    plan,          \* caller: the arguments of the match calls it makes next
    history        \* caller: arguments and outcome of each match call that ended

args == <<mpns, sellers, specs, imagesets, descriptions>>
env == <<chunksize, behaviour, bad>>
locals == <<client, unique_mpns, queries, chunks>>
futures == <<fstate, fresult, fexc>>
searching == <<search_args, search_calls>>
caller == <<plan, history>>
vars == <<pc, args, env, locals, futures, calls, call_clients, nextr, acc, result, error, searching, caller>>

\* --------------------------------------------------------- utils (library)
RECURSIVE unique(_)
unique(list) ==
    IF list = <<>> THEN <<>>
    ELSE LET front == unique(SubSeq(list, 1, Len(list) - 1))
             x == list[Len(list)]
         IN  IF \E i \in 1..Len(front) : front[i] = x
             THEN front
             ELSE Append(front, x)

chunked(list, size) ==
    LET n == Len(list)
        count == (n + size - 1) \div size
    IN  [c \in 1..count |-> SubSeq(list, (c - 1) * size + 1, Min(c * size, n))]

\* itertools.product(a, b): first factor outermost
product(a, b) ==
    [k \in 1..(Len(a) * Len(b)) |->
        <<a[((k - 1) \div Len(b)) + 1], b[((k - 1) % Len(b)) + 1]>>]

\* ------------------------------------------------------- query construction
UniqueMpnsKeepAll(list) == list

\* drops a value only where it repeats the one just before it
RECURSIVE UniqueMpnsAdjacent(_)
UniqueMpnsAdjacent(list) ==
    IF Len(list) <= 1 THEN list
    ELSE LET front == UniqueMpnsAdjacent(SubSeq(list, 1, Len(list) - 1))
         IN  IF list[Len(list)] = list[Len(list) - 1]
             THEN front
             ELSE Append(front, list[Len(list)])

\* unique_mpns = utils.unique(mpns)
UniqueMpns(list) == unique(list)

PlainQueryBlankReference(mpn) == [q |-> mpn, reference |-> ""]

PlainQuery(mpn) == [q |-> mpn, reference |-> mpn]

SellerQueryRefSeller(mpn, seller) ==
    [q |-> mpn, seller |-> seller, reference |-> seller]

SellerQuery(mpn, seller) == [q |-> mpn, seller |-> seller, reference |-> mpn]

SellersIsFalsy(s) == ~s.given \/ s.value = <<>>

\* sellers is None
SellersIsNone(s) == ~s.given

BuildQueriesUniqueSellers(umpns, s) ==
    IF SellersIsNone(s)
    THEN [i \in 1..Len(umpns) |-> PlainQuery(umpns[i])]
    ELSE LET pairs == product(umpns, unique(s.value))
         IN  [k \in 1..Len(pairs) |-> SellerQuery(pairs[k][1], pairs[k][2])]

BuildQueriesSellerMajor(umpns, s) ==
    IF SellersIsNone(s)
    THEN [i \in 1..Len(umpns) |-> PlainQuery(umpns[i])]
    ELSE LET pairs == product(s.value, umpns)
         IN  [k \in 1..Len(pairs) |-> SellerQuery(pairs[k][2], pairs[k][1])]

BuildQueries(umpns, s) ==
    IF SellersIsNone(s)
    THEN [i \in 1..Len(umpns) |-> PlainQuery(umpns[i])]
    ELSE LET pairs == product(umpns, s.value)
         IN  [k \in 1..Len(pairs) |-> SellerQuery(pairs[k][1], pairs[k][2])]

MatchChunksWhole(qs, size) == <<qs>>

MatchChunksTrailingEmpty(qs, size) == Append(chunked(qs, size), <<>>)

\* one chunk per identifier, whatever the batch size
MatchChunksByIdentifier(qs, size) ==
    LET ids == unique([k \in 1..Len(qs) |-> qs[k].q])
    IN  [g \in 1..Len(ids) |-> SelectSeq(qs, LAMBDA x : x.q = ids[g])]

MatchChunksOffByOne(qs, size) == chunked(qs, size + 1)

\* the iterable handed to pool.map
MatchChunks(qs, size) == chunked(qs, size)

\* ------------------------------------------------------------ collaborator
RequestChunkAllQueries(chunk, sp, im, de) ==
    [queries |-> queries, specs |-> sp, imagesets |-> im, descriptions |-> de]

RequestChunkRewriteQueries(chunk, sp, im, de) ==
    [queries |-> [j \in 1..Len(chunk) |-> [chunk[j] EXCEPT !.reference = ""]],
     specs |-> sp, imagesets |-> im, descriptions |-> de]

RequestChunkDefaultFlags(chunk, sp, im, de) ==
    [queries |-> chunk, specs |-> FALSE, imagesets |-> FALSE, descriptions |-> FALSE]

\* keyword arguments _request_chunk passes to client.match
RequestChunk(chunk, sp, im, de) ==
    [queries |-> chunk, specs |-> sp, imagesets |-> im, descriptions |-> de]

\* the identifiers the error-marking collaborator answers with an error
\* marker; it answers the others with matches
ErrorIds == {"B"}

Entry(q, b) ==
    IF b = "error" /\ q.q \in ErrorIds
    THEN [reference |-> q.reference, items |-> <<>>, error |-> TRUE]
    ELSE [reference |-> q.reference, items |-> <<q>>, error |-> FALSE]

Stray == [reference |-> "?", items |-> <<>>, error |-> FALSE]

ClientRaises(chunk, badIds) == \E k \in 1..Len(chunk) : chunk[k].q \in badIds

ClientError(chunk) == [type |-> "HTTPError", queries |-> chunk]

ClientMatch(chunk, b) ==
    LET all == [k \in 1..Len(chunk) |-> Entry(chunk[k], b)]
    IN  [results |->
            CASE b = "short" -> SubSeq(all, 1, Len(all) - 1)
              [] b = "long" -> Append(all, Stray)
              [] OTHER -> all]

PartsMatchResult(r) == [class |-> "PartsMatchResult", json |-> r]

SearchRequestDefaultPaging(a) ==
    [query |-> a.query, start |-> 0, limit |-> 10, sortby |-> a.sortby,
     filter_fields |-> a.filter_fields, filter_queries |-> a.filter_queries]

\* positional and keyword arguments search passes to client.search
SearchRequest(a) ==
    [query |-> a.query, start |-> a.start, limit |-> a.limit, sortby |-> a.sortby,
     filter_fields |-> a.filter_fields, filter_queries |-> a.filter_queries]

ClientSearchRaises(call, badIds) == call.query \in badIds

ClientSearchError(call) == [type |-> "HTTPError", request |-> call]

ClientSearch(call) ==
    [request |-> call, hits |-> 1, results |-> <<[item |-> call.query]>>]

PartsSearchResult(r) == [class |-> "PartsSearchResult", json |-> r]

\* ------------------------------------------------------------- worker pool
Running(fs) == {i \in 1..Len(fs) : fs[i] = "RUNNING"}

WorkerAlwaysAvailable(fs) == TRUE

\* a worker that has taken a work item never takes another
WorkerAvailableNeverFreed(fs) ==
    Cardinality({i \in 1..Len(fs) : fs[i] # "PENDING"}) < MAX_REQUEST_THREADS

\* ThreadPoolExecutor(max_workers=MAX_REQUEST_THREADS)
WorkerAvailable(fs) == Cardinality(Running(fs)) < MAX_REQUEST_THREADS

\* the work queue is first in, first out
HeadOfQueue(fs, i) ==
    /\ i \in 1..Len(fs)
    /\ fs[i] = "PENDING"
    /\ \A j \in 1..(i - 1) : fs[j] # "PENDING"

SetResultInCompletionOrder(fr, i, r) ==
    LET k == CHOOSE j \in 1..Len(fr) :
                 fr[j] = None /\ \A h \in 1..(j - 1) : fr[h] # None
    IN  [fr EXCEPT ![k] = Some(r)]

\* each worker completes the future of the chunk it ran
SetResult(fr, i, r) == [fr EXCEPT ![i] = Some(r)]

SetExceptionCancelSiblings(fe, i, e) ==
    [j \in 1..Len(fe) |->
        IF j = i THEN Some(e)
        ELSE IF fe[j] = None /\ fresult[j] = None
             THEN Some([type |-> "CancelledError", queries |-> chunks[j]])
             ELSE fe[j]]

SetExceptionFirstFreeSlot(fe, i, e) ==
    LET k == CHOOSE j \in 1..Len(fe) :
                 fe[j] = None /\ \A h \in 1..(j - 1) : fe[h] # None
    IN  [fe EXCEPT ![k] = Some(e)]

SetException(fe, i, e) == [fe EXCEPT ![i] = Some(e)]

AllDoneNoWait(fs) == TRUE

AllDoneOrFailed(fs) ==
    \/ \A i \in 1..Len(fs) : fs[i] = "FINISHED"
    \/ \E j \in 1..Len(fexc) : fexc[j] # None

\* shutdown(wait=True) on leaving the with block
AllDone(fs) == \A i \in 1..Len(fs) : fs[i] = "FINISHED"

WrapResponseSkipErrors(response) ==
    LET kept == SelectSeq(response.results, LAMBDA r : ~r.error)
    IN  [k \in 1..Len(kept) |-> PartsMatchResult(kept[k])]

WrapResponseFirstOnly(response) ==
    IF response.results = <<>> THEN <<>>
    ELSE <<PartsMatchResult(response.results[1])>>

\* the wrapped entries one response contributes to the returned list
WrapResponse(response) ==
    [k \in 1..Len(response.results) |-> PartsMatchResult(response.results[k])]

\* -------------------------------------------------------------------- Init
NoSellers == [given |-> FALSE, value |-> <<>>]
GivenSellers(v) == [given |-> TRUE, value |-> v]

Flags(f) == specs = f[1] /\ imagesets = f[2] /\ descriptions = f[3]

Collaborator(c) == behaviour = c.behaviour /\ bad = c.bad

InitArgs ==
    /\ mpns \in SeqsUpTo(Ids, MaxMpns)
    /\ sellers \in {NoSellers} \cup {GivenSellers(v) : v \in SeqsUpTo(SellerNames, MaxSellers)}
    /\ Flags(DefaultFlags)
    /\ chunksize \in 1..MaxChunkSize
    /\ \E c \in Collaborators : Collaborator(c)

\* defaults of search's keyword arguments (lines 82-86), no query
NoSearch ==
    [query |-> "", start |-> 0, limit |-> 10, sortby |-> <<>>,
     filter_fields |-> None, filter_queries |-> None]

SearchArgs ==
    [query : Ids, start : {0, 1}, limit : {10, 1},
     sortby : {<<>>, << <<"avg_price", "asc">> >>},
     filter_fields : {None, Some([brand |-> "Rohm"])},
     filter_queries : {None, Some([offers |-> "[1 TO *]"])}]

\* identifier lists with which the caller calls match a second time
RepeatedInputs == {<<"A", "B">>}

\* the caller calls match once, or may call it a second time with the same
\* arguments
SamePlans(m, s) ==
    IF m \in RepeatedInputs
    THEN {<<[mpns |-> m, sellers |-> s]>>}
    ELSE {<<>>}

InitRest ==
    /\ pc = "call"
    /\ plan \in SamePlans(mpns, sellers)
    /\ history = <<>>
    /\ search_args = NoSearch
    /\ search_calls = <<>>
    /\ client = None
    /\ unique_mpns = <<>>
    /\ queries = <<>>
    /\ chunks = <<>>
    /\ fstate = <<>>
    /\ fresult = <<>>
    /\ fexc = <<>>
    /\ calls = <<>>
    /\ call_clients = <<>>
    /\ nextr = 1
    /\ acc = <<>>
    /\ result = None
    /\ error = None

\* a run that calls search instead of match
InitSearch ==
    /\ pc = "search"
    /\ plan = <<>>
    /\ history = <<>>
    /\ search_args \in SearchArgs
    /\ search_calls = <<>>
    /\ mpns = <<>>
    /\ sellers = NoSellers
    /\ Flags(DefaultFlags)
    /\ chunksize = 1
    /\ behaviour = "faithful"
    /\ bad \in SUBSET Ids
    /\ client = None
    /\ unique_mpns = <<>>
    /\ queries = <<>>
    /\ chunks = <<>>
    /\ fstate = <<>>
    /\ fresult = <<>>
    /\ fexc = <<>>
    /\ calls = <<>>
    /\ call_clients = <<>>
    /\ nextr = 1
    /\ acc = <<>>
    /\ result = None
    /\ error = None

Init == (InitArgs /\ InitRest) \/ InitSearch

\* ----------------------------------------------------------------- actions
\* the n-th OctopartClient instance a run creates
OctopartClient(n) == n

CallClientPerCall(c) == OctopartClient(Len(call_clients) + 2)

\* the client _request_chunk calls: the one match created
CallClient(c) == c[1]

BuildDedupInPlace ==
    /\ pc = "call"
    /\ mpns' = UniqueMpns(mpns)
    /\ client' = Some(OctopartClient(1))
    /\ unique_mpns' = UniqueMpns(mpns)
    /\ queries' = BuildQueries(UniqueMpns(mpns), sellers)
    /\ chunks' = MatchChunks(BuildQueries(UniqueMpns(mpns), sellers), chunksize)
    /\ pc' = "map"
    /\ UNCHANGED <<caller, searching, sellers, specs, imagesets, descriptions, env,
                   futures, calls, call_clients, nextr, acc, result, error>>

\* lines 40-60 and the argument of pool.map: client, unique_mpns, queries
Build ==
    /\ pc = "call"
    /\ client' = Some(OctopartClient(1))
    /\ unique_mpns' = UniqueMpns(mpns)
    /\ queries' = BuildQueries(UniqueMpns(mpns), sellers)
    /\ chunks' = MatchChunks(BuildQueries(UniqueMpns(mpns), sellers), chunksize)
    /\ pc' = "map"
    /\ UNCHANGED <<caller, searching, args, env, futures, calls, call_clients, nextr, acc, result, error>>

\* pool.map submits one future per chunk, in order
Submit ==
    /\ pc = "map"
    /\ Len(fstate) < Len(chunks)
    /\ fstate' = Append(fstate, "PENDING")
    /\ fresult' = Append(fresult, None)
    /\ fexc' = Append(fexc, None)
    /\ UNCHANGED <<caller, searching, pc, args, env, locals, calls, call_clients, nextr, acc, result, error>>

\* pool.map returns its result iterator; the with block is left
MapReturn ==
    /\ pc = "map"
    /\ Len(fstate) = Len(chunks)
    /\ pc' = "shutdown"
    /\ UNCHANGED <<caller, searching, args, env, locals, futures, calls, call_clients, nextr, acc, result, error>>

\* a worker takes the next work item and calls client.match
Start(i) ==
    /\ HeadOfQueue(fstate, i)
    /\ WorkerAvailable(fstate)
    /\ fstate' = [fstate EXCEPT ![i] = "RUNNING"]
    /\ calls' = Append(calls, RequestChunk(chunks[i], specs, imagesets, descriptions))
    /\ call_clients' = Append(call_clients, CallClient(client))
    /\ UNCHANGED <<caller, searching, pc, args, env, locals, fresult, fexc, nextr, acc, result, error>>

\* client.match returns or raises; the worker completes the future
Finish(i) ==
    /\ i \in 1..Len(fstate)
    /\ fstate[i] = "RUNNING"
    /\ fstate' = [fstate EXCEPT ![i] = "FINISHED"]
    /\ IF ClientRaises(chunks[i], bad)
       THEN /\ fexc' = SetException(fexc, i, ClientError(chunks[i]))
            /\ UNCHANGED fresult
       ELSE /\ fresult' = SetResult(fresult, i, ClientMatch(chunks[i], behaviour))
            /\ UNCHANGED fexc
    /\ UNCHANGED <<caller, searching, pc, args, env, locals, calls, call_clients, nextr, acc, result, error>>

\* the with block's exit waits for the workers
Shutdown ==
    /\ pc = "shutdown"
    /\ AllDone(fstate)
    /\ pc' = "collect"
    /\ UNCHANGED <<caller, searching, args, env, locals, futures, calls, call_clients, nextr, acc, result, error>>

CollectDropFailed ==
    /\ pc = "collect"
    /\ nextr <= Len(fstate)
    /\ fstate[nextr] = "FINISHED"
    /\ acc' = IF fexc[nextr] # None THEN acc
              ELSE acc \o WrapResponse(fresult[nextr][1])
    /\ nextr' = nextr + 1
    /\ UNCHANGED <<caller, searching, pc, error, args, env, locals, futures, calls, call_clients, result>>

CollectWrapError ==
    /\ pc = "collect"
    /\ nextr <= Len(fstate)
    /\ fstate[nextr] = "FINISHED"
    /\ IF fexc[nextr] # None
       THEN /\ pc' = "raised"
            /\ error' = Some([type |-> "MatchError", cause |-> fexc[nextr][1]])
            /\ acc' = <<>>
            /\ UNCHANGED nextr
       ELSE /\ acc' = acc \o WrapResponse(fresult[nextr][1])
            /\ nextr' = nextr + 1
            /\ UNCHANGED <<pc, error>>
    /\ UNCHANGED <<caller, searching, args, env, locals, futures, calls, call_clients, result>>

CollectValidate ==
    /\ pc = "collect"
    /\ nextr <= Len(fstate)
    /\ fstate[nextr] = "FINISHED"
    /\ IF fexc[nextr] # None
       THEN /\ pc' = "raised"
            /\ error' = fexc[nextr]
            /\ acc' = <<>>
            /\ UNCHANGED nextr
       ELSE IF Len(fresult[nextr][1].results) # Len(chunks[nextr])
            THEN /\ pc' = "raised"
                 /\ error' = Some([type |-> "ValueError", queries |-> chunks[nextr]])
                 /\ acc' = <<>>
                 /\ UNCHANGED nextr
            ELSE /\ acc' = acc \o WrapResponse(fresult[nextr][1])
                 /\ nextr' = nextr + 1
                 /\ UNCHANGED <<pc, error>>
    /\ UNCHANGED <<caller, searching, args, env, locals, futures, calls, call_clients, result>>

CollectPrepend ==
    /\ pc = "collect"
    /\ nextr <= Len(fstate)
    /\ fstate[nextr] = "FINISHED"
    /\ IF fexc[nextr] # None
       THEN /\ pc' = "raised"
            /\ error' = fexc[nextr]
            /\ acc' = <<>>
            /\ UNCHANGED nextr
       ELSE /\ acc' = WrapResponse(fresult[nextr][1]) \o acc
            /\ nextr' = nextr + 1
            /\ UNCHANGED <<pc, error>>
    /\ UNCHANGED <<caller, searching, args, env, locals, futures, calls, call_clients, result>>

\* one round of `for response in responses`: future.result() raises or
\* yields the response, whose entries are wrapped and appended
Collect ==
    /\ pc = "collect"
    /\ nextr <= Len(fstate)
    /\ fstate[nextr] = "FINISHED"
    /\ IF fexc[nextr] # None
       THEN /\ pc' = "raised"
            /\ error' = fexc[nextr]
            /\ acc' = <<>>
            /\ UNCHANGED nextr
       ELSE /\ acc' = acc \o WrapResponse(fresult[nextr][1])
            /\ nextr' = nextr + 1
            /\ UNCHANGED <<searching, pc, error>>
    /\ UNCHANGED <<caller, searching, args, env, locals, futures, calls, call_clients, result>>

\* the comprehension is exhausted: match returns the list
Return ==
    /\ pc = "collect"
    /\ nextr > Len(fstate)
    /\ result' = Some(acc)
    /\ pc' = "returned"
    /\ UNCHANGED <<caller, searching, args, env, locals, futures, calls, call_clients, nextr, acc, error>>

CallAgainKeepResults ==
    /\ pc \in {"returned", "raised"}
    /\ plan # <<>>
    /\ history' = Append(history, [mpns |-> mpns, sellers |-> sellers,
                                   chunks |-> chunks, calls |-> calls,
                                   result |-> result, error |-> error])
    /\ mpns' = Head(plan).mpns
    /\ sellers' = Head(plan).sellers
    /\ plan' = Tail(plan)
    /\ pc' = "call"
    /\ client' = None
    /\ unique_mpns' = <<>>
    /\ queries' = <<>>
    /\ chunks' = <<>>
    /\ fstate' = <<>>
    /\ fresult' = <<>>
    /\ fexc' = <<>>
    /\ calls' = <<>>
    /\ call_clients' = <<>>
    /\ nextr' = 1
    /\ result' = None
    /\ error' = None
    /\ UNCHANGED <<searching, specs, imagesets, descriptions, env, acc>>

\* the caller, after match returned or raised, calls match again: a new
\* frame, so no local, pool, future or result list of the earlier call
CallAgain ==
    /\ pc \in {"returned", "raised"}
    /\ plan # <<>>
    /\ history' = Append(history, [mpns |-> mpns, sellers |-> sellers,
                                   chunks |-> chunks, calls |-> calls,
                                   result |-> result, error |-> error])
    /\ mpns' = Head(plan).mpns
    /\ sellers' = Head(plan).sellers
    /\ plan' = Tail(plan)
    /\ pc' = "call"
    /\ client' = None
    /\ unique_mpns' = <<>>
    /\ queries' = <<>>
    /\ chunks' = <<>>
    /\ fstate' = <<>>
    /\ fresult' = <<>>
    /\ fexc' = <<>>
    /\ calls' = <<>>
    /\ call_clients' = <<>>
    /\ nextr' = 1
    /\ acc' = <<>>
    /\ result' = None
    /\ error' = None
    /\ UNCHANGED <<searching, specs, imagesets, descriptions, env>>

\* search, lines 101-108: client.search is called
SearchCall ==
    /\ pc = "search"
    /\ search_calls' = Append(search_calls, SearchRequest(search_args))
    /\ pc' = "searching"
    /\ client' = Some(OctopartClient(1))
    /\ UNCHANGED <<caller, search_args, args, env, unique_mpns, queries, chunks, futures, calls, call_clients, nextr, acc, result, error>>

\* client.search raises, or returns and search wraps the response (line 109)
SearchFinish ==
    /\ pc = "searching"
    /\ LET call == search_calls[Len(search_calls)]
       IN  IF ClientSearchRaises(call, bad)
           THEN /\ pc' = "search_raised"
                /\ error' = Some(ClientSearchError(call))
                /\ UNCHANGED result
           ELSE /\ pc' = "search_returned"
                /\ result' = Some(PartsSearchResult(ClientSearch(call)))
                /\ UNCHANGED error
    /\ UNCHANGED <<caller, searching, args, env, locals, futures, calls, call_clients, nextr, acc>>

Next ==
    \/ Build
    \/ Submit
    \/ MapReturn
    \/ \E i \in 1..Len(fstate) : Start(i)
    \/ \E i \in 1..Len(fstate) : Finish(i)
    \/ Shutdown
    \/ Collect
    \/ Return
    \/ CallAgain
    \/ SearchCall
    \/ SearchFinish

Spec == Init /\ [][Next]_vars

\* More chunks than the pool has workers: two identifiers, PoolSellers
\* sellers each, one query per chunk.
PoolSellersList == [k \in 1..PoolSellers |-> IF k % 2 = 1 THEN "X" ELSE "Y"]

InitPoolMatch ==
    /\ mpns = <<"A", "B">>
    /\ sellers = GivenSellers(PoolSellersList)
    /\ Flags(DefaultFlags)
    /\ chunksize = 1
    /\ behaviour = "faithful"
    /\ bad \in {{}, {"B"}}
    /\ InitRest

InitPool == InitPoolMatch \/ InitSearch

SpecPool == InitPool /\ [][Next]_vars

\* Fair scheduling: the calling thread keeps running while it can take a
\* step, an idle worker takes the work item at the head of the queue, and
\* every request in flight returns or raises.
CallerStep == Build \/ Submit \/ MapReturn \/ Shutdown \/ Collect \/ Return

WorkerStep == \E i \in 1..Len(fstate) : Start(i)

RequestStep == \E i \in 1..Len(fstate) : Finish(i)

SearchStep == SearchCall \/ SearchFinish

Fairness ==
    /\ WF_vars(CallerStep)
    /\ WF_vars(WorkerStep)
    /\ WF_vars(RequestStep)
    /\ WF_vars(SearchStep)

\* One chunk more than the pool has workers, two queries per chunk, the
\* chunks holding identifier B raising when B is bad.
FairSellersList ==
    [k \in 1..(MAX_REQUEST_THREADS + 1) |-> IF k % 2 = 1 THEN "X" ELSE "Y"]

InitFairMatch ==
    /\ mpns = <<"A", "B">>
    /\ sellers = GivenSellers(FairSellersList)
    /\ Flags(DefaultFlags)
    /\ chunksize = 2
    /\ behaviour = "faithful"
    /\ bad \in {{}, {"B"}}
    /\ InitRest

InitFair == InitFairMatch \/ InitSearch

SpecFair == InitFair /\ [][Next]_vars /\ Fairness

\* Every combination of the three option flags, for two identifiers against
\* a collaborator that answers faithfully and may raise on identifier B.
InitFlagsMatch ==
    /\ mpns = <<"A", "B">>
    /\ sellers \in {NoSellers} \cup {GivenSellers(v) : v \in SeqsUpTo(SellerNames, MaxSellers)}
    /\ \E f \in BOOLEAN \X BOOLEAN \X BOOLEAN : Flags(f)
    /\ chunksize \in 1..MaxChunkSize
    /\ behaviour = "faithful"
    /\ bad \in {{}, {"B"}}
    /\ InitRest

InitFlags == InitFlagsMatch \/ InitSearch

SpecFlags == InitFlags /\ [][Next]_vars

\* Every argument combination of Spec against a collaborator that answers
\* faithfully and never raises: what match builds and dispatches does not
\* depend on the answers.
InitBuildMatch ==
    /\ mpns \in SeqsUpTo(Ids, MaxMpns)
    /\ sellers \in {NoSellers} \cup {GivenSellers(v) : v \in SeqsUpTo(SellerNames, MaxSellers)}
    /\ Flags(DefaultFlags)
    /\ chunksize \in 1..MaxChunkSize
    /\ behaviour = "faithful"
    /\ bad = {}
    /\ InitRest

InitBuild == InitBuildMatch \/ InitSearch

SpecBuild == InitBuild /\ [][Next]_vars

\* The caller makes up to MaxRepeats further calls of match, each with
\* arguments of its choice, against one collaborator; one query per chunk.
RepeatArgs ==
    [mpns : {<<"A">>, <<"A", "B">>},
     sellers : {NoSellers, GivenSellers(<<"X", "Y">>)}]

InitRepeatMatch ==
    /\ \E a \in RepeatArgs : mpns = a.mpns /\ sellers = a.sellers
    /\ Flags(DefaultFlags)
    /\ chunksize = 1
    /\ \E c \in Collaborators : Collaborator(c)
    /\ pc = "call"
    /\ plan \in SeqsUpTo(RepeatArgs, MaxRepeats) \ {<<>>}
    /\ history = <<>>
    /\ search_args = NoSearch
    /\ search_calls = <<>>
    /\ client = None
    /\ unique_mpns = <<>>
    /\ queries = <<>>
    /\ chunks = <<>>
    /\ fstate = <<>>
    /\ fresult = <<>>
    /\ fexc = <<>>
    /\ calls = <<>>
    /\ call_clients = <<>>
    /\ nextr = 1
    /\ acc = <<>>
    /\ result = None
    /\ error = None

InitRepeat == InitRepeatMatch \/ InitSearch

SpecRepeat == InitRepeat /\ [][Next]_vars

\* ------------------------------------------------------------- properties
Range(seq) == {seq[i] : i \in 1..Len(seq)}

FirstIndex(seq, x) ==
    CHOOSE i \in 1..Len(seq) : seq[i] = x /\ \A j \in 1..(i - 1) : seq[j] # x

CeilDiv(n, k) == CHOOSE c \in 0..n : c * k >= n /\ (c - 1) * k < n

Built == pc # "call"

Ended == pc \in {"returned", "raised"}

AnyChunkRaised == \E i \in 1..Len(fexc) : fexc[i] # None

AllFinished ==
    /\ Len(fstate) = Len(chunks)
    /\ \A i \in 1..Len(fstate) : fstate[i] = "FINISHED"

\* what dispatching the chunks one after the other, in submission order,
\* and appending each response's entries as it arrives would return
SequentialResult ==
    Flatten([i \in 1..Len(chunks) |->
        LET response == ClientMatch(chunks[i], behaviour)
        IN  [k \in 1..Len(response.results) |->
                PartsMatchResult(response.results[k])]])

\* C1: whatever order the concurrently dispatched chunks complete in, the
\* list match returns equals the list obtained by dispatching the same
\* chunks strictly sequentially in submission order.
C1_SubmissionOrder ==
    pc = "returned" => result = Some(SequentialResult)

C1_Witness ==
    /\ pc = "returned"
    /\ Len(chunks) >= 3
    /\ result # Some(<<>>)
    /\ \A i, j \in 1..Len(chunks) :
          i # j => ClientMatch(chunks[i], behaviour) # ClientMatch(chunks[j], behaviour)

\* C2: once any chunk dispatch has raised, match never returns a list, be it
\* partial or truncated: it ends by raising and no result exists.
C2_NoPartialResult ==
    AnyChunkRaised =>
        /\ pc # "returned"
        /\ result = None
        /\ (Ended => pc = "raised" /\ error # None)

C2_Witness ==
    /\ pc = "raised"
    /\ result = None
    /\ Len(fexc) >= 2
    /\ fexc[1] = None
    /\ fresult[1] # None
    /\ fresult[1][1].results # <<>>

\* C3: with an empty identifier list, with or without sellers, match returns
\* the empty list and client.match is never called.
C3_EmptyInput ==
    mpns = <<>> =>
        /\ calls = <<>>
        /\ fstate = <<>>
        /\ pc # "raised"
        /\ (pc = "returned" => result = Some(<<>>))

C3_Witness ==
    /\ mpns = <<>>
    /\ pc = "returned"
    /\ sellers.given
    /\ sellers.value # <<>>
    /\ bad # {}

OnePerIdentifier ==
    /\ Len(queries) = Cardinality(Range(mpns))
    /\ \A id \in Range(mpns) :
          Cardinality({k \in 1..Len(queries) : queries[k].q = id}) = 1

\* C4 as stated: with sellers omitted or supplied empty, exactly one query
\* per unique identifier is built.
C4_Original ==
    (Built /\ (~sellers.given \/ sellers.value = <<>>)) => OnePerIdentifier

\* C4 as amended: with sellers omitted, exactly one query per unique
\* identifier is built; with sellers supplied as an empty sequence, no query
\* is built at all.
C4_Amended ==
    Built =>
        /\ (~sellers.given => OnePerIdentifier)
        /\ (sellers.given /\ sellers.value = <<>> => queries = <<>>)

C4_Witness ==
    /\ pc = "returned"
    /\ sellers.given
    /\ sellers.value = <<>>
    /\ mpns # <<>>
    /\ queries = <<>>
    /\ calls = <<>>

\* C5: without sellers, one query per distinct identifier is built, in the
\* order of each identifier's first occurrence in the input.
C5_DedupFirstOccurrence ==
    (Built /\ ~sellers.given) =>
        /\ Len(queries) = Cardinality(Range(mpns))
        /\ \A k \in 1..Len(queries) : queries[k].q \in Range(mpns)
        /\ \A i, j \in 1..Len(queries) :
              i < j => FirstIndex(mpns, queries[i].q) < FirstIndex(mpns, queries[j].q)

C5_Witness ==
    /\ Built
    /\ ~sellers.given
    /\ mpns = <<"B", "A", "B">>
    /\ Len(queries) = 2
    /\ queries[1].q = "B"

\* C6: with a non-empty sellers list, one query per (identifier, seller)
\* pair is built, |unique identifiers| x |sellers| in all, all sellers of
\* the first identifier first, then all sellers of the second, and so on.
C6_IdentifierMajor ==
    (Built /\ sellers.given /\ sellers.value # <<>>) =>
        LET S == Len(sellers.value)
            block(k) == (k - 1) \div S
        IN  /\ Len(queries) = Cardinality(Range(mpns)) * S
            /\ \A k \in 1..Len(queries) :
                  /\ queries[k].seller = sellers.value[((k - 1) % S) + 1]
                  /\ queries[k].q \in Range(mpns)
                  /\ queries[k].q = queries[block(k) * S + 1].q
            /\ \A i, j \in 1..Len(queries) :
                  block(i) < block(j) =>
                      FirstIndex(mpns, queries[i].q) < FirstIndex(mpns, queries[j].q)

C6_Witness ==
    /\ Built
    /\ mpns = <<"A", "B">>
    /\ sellers = GivenSellers(<<"X", "Y">>)
    /\ queries = << SellerQuery("A", "X"), SellerQuery("A", "Y"),
                    SellerQuery("B", "X"), SellerQuery("B", "Y") >>

\* the collaborator answers every chunk with one entry per query, in order
OneEntryPerQuery == behaviour \in {"faithful", "error"}

\* C7: against a collaborator that answers one entry per submitted query in
\* submission order, a successful match returns one wrapped entry per
\* constructed query, the i-th entry answering the i-th query.
C7_OneResultPerQuery ==
    (pc = "returned" /\ OneEntryPerQuery) =>
        LET list == result[1]
        IN  /\ Len(list) = Len(queries)
            /\ \A i \in 1..Len(list) :
                  /\ list[i].class = "PartsMatchResult"
                  /\ list[i].json.reference = queries[i].reference
                  /\ (behaviour = "faithful" => list[i].json.items = <<queries[i]>>)

C7_Witness ==
    /\ pc = "returned"
    /\ behaviour = "faithful"
    /\ Len(queries) > Cardinality(Range(mpns))
    /\ Len(chunks) >= 2
    /\ Len(chunks[1]) >= 2
    /\ Len(result[1]) = Len(queries)

\* C8: N queries and batch size K make ceil(N/K) chunks, each of K queries
\* except possibly the last, which has between 1 and K; one future is
\* submitted and one call made per chunk.
C8_ChunkCount ==
    Built =>
        LET N == Len(queries)
            K == chunksize
        IN  /\ Len(chunks) = CeilDiv(N, K)
            /\ \A c \in 1..(Len(chunks) - 1) : Len(chunks[c]) = K
            /\ (chunks # <<>> => Len(chunks[Len(chunks)]) \in 1..K)
            /\ (Ended => Len(fstate) = CeilDiv(N, K) /\ Len(calls) = CeilDiv(N, K))

C8_Witness ==
    /\ pc = "returned"
    /\ Len(queries) = 4
    /\ chunksize = 3
    /\ Len(chunks) = 2
    /\ Len(chunks[2]) = 1
    /\ Len(calls) = 2

\* C9: at no point are more than MAX_REQUEST_THREADS chunk requests in
\* flight, however many chunks there are.
C9_BoundedInFlight ==
    Cardinality({i \in 1..Len(fstate) : fstate[i] = "RUNNING"}) <= MAX_REQUEST_THREADS

C9_Witness ==
    /\ Len(chunks) > MAX_REQUEST_THREADS
    /\ Cardinality({i \in 1..Len(fstate) : fstate[i] = "RUNNING"}) = MAX_REQUEST_THREADS
    /\ \E i \in 1..Len(fstate) : fstate[i] = "PENDING"

\* C10: match neither returns nor raises, nor starts assembling results,
\* while a chunk dispatch it submitted is still pending or in flight.
C10_WaitsForAll ==
    pc \in {"collect", "returned", "raised"} => AllFinished

C10_Witness ==
    /\ pc = "raised"
    /\ Len(fstate) >= 3
    /\ fexc[1] # None
    /\ AllFinished
    /\ Len(calls) = Len(chunks)

\* number of calls client.match has received for the chunk value c, of
\* futures no longer pending for it, and of chunks equal to it
CallsFor(c) == Cardinality({k \in 1..Len(calls) : calls[k].queries = c})

StartedFor(c) ==
    Cardinality({i \in 1..Len(fstate) : fstate[i] # "PENDING" /\ chunks[i] = c})

ChunksFor(c) == Cardinality({i \in 1..Len(chunks) : chunks[i] = c})

\* C11: the error match or search raises is the very error a collaborator
\* call raised, neither wrapped nor replaced, and no collaborator call is
\* made again after it failed.
C11_ErrorUnchanged ==
    /\ pc = "raised" =>
          \E i \in 1..Len(chunks) :
              /\ ClientRaises(chunks[i], bad)
              /\ fexc[i] = Some(ClientError(chunks[i]))
              /\ error = fexc[i]
    /\ pc = "search_raised" =>
          /\ error = Some(ClientSearchError(SearchRequest(search_args)))
          /\ result = None
    /\ \A c \in Range(chunks) : CallsFor(c) <= ChunksFor(c)
    /\ Len(search_calls) <= 1

C11_Witness ==
    /\ pc = "raised"
    /\ Len(chunks) >= 2
    /\ fexc[1] = None
    /\ error = fexc[2]
    /\ error # None
    /\ Len(calls) = Len(chunks)

\* C12 as stated: once a chunk dispatch has raised, no other chunk dispatch
\* is started or waited for before match raises.
C12_Original ==
    [][(AnyChunkRaised /\ pc # "raised") => fstate' = fstate]_vars

\* C12 as amended: a failure is not surfaced at once; after a chunk dispatch
\* has raised, match stays inside the with block until every other submitted
\* chunk dispatch has been started and has completed, and only then raises.
C12_Amended ==
    AnyChunkRaised =>
        /\ (~AllFinished => pc \in {"map", "shutdown"})
        /\ (pc = "raised" => AllFinished /\ Len(calls) = Len(chunks))

C12_Witness ==
    /\ pc = "shutdown"
    /\ Len(fexc) >= 3
    /\ fexc[1] # None
    /\ \E j \in 1..Len(fstate) : fstate[j] = "PENDING"
    /\ \E j \in 1..Len(fstate) : fstate[j] = "RUNNING"

\* C13: every chunk is passed to client.match in exactly one call, never
\* none and never two, so match makes as many calls as there are chunks;
\* each call carries that chunk's queries and the flags match was given.
C13_OneCallPerChunk ==
    /\ \A c \in Range(chunks) :
          /\ CallsFor(c) = StartedFor(c)
          /\ (Ended => CallsFor(c) = ChunksFor(c))
    /\ \A k \in 1..Len(calls) :
          /\ calls[k].queries \in Range(chunks)
          /\ calls[k].specs = specs
          /\ calls[k].imagesets = imagesets
          /\ calls[k].descriptions = descriptions
    /\ (Ended => Len(calls) = Len(chunks))

C13_Witness ==
    /\ pc = "raised"
    /\ Len(chunks) >= 3
    /\ chunks[1] = chunks[2]
    /\ Len(calls) = Len(chunks)
    /\ specs /\ ~imagesets

\* C14: match never changes the identifier and seller collections its
\* caller supplied: no step of it alters them.
C14_InputsUnchanged ==
    [][mpns' = mpns /\ sellers' = sellers]_vars

C14_Witness ==
    /\ pc = "returned"
    /\ Len(mpns) > Len(unique_mpns)
    /\ sellers.given
    /\ Len(sellers.value) = 2
    /\ sellers.value[1] = sellers.value[2]

\* C15: the three flags reach every client.match call with the values match
\* was given, and the queries and chunks are what the identifiers, the
\* sellers and the batch size alone determine: the query dicts carry no flag.
C15_FlagsPassThrough ==
    /\ \A k \in 1..Len(calls) :
          /\ calls[k].specs = specs
          /\ calls[k].imagesets = imagesets
          /\ calls[k].descriptions = descriptions
    /\ Built =>
          /\ Len(queries) = Cardinality(Range(mpns))
                              * (IF sellers.given THEN Len(sellers.value) ELSE 1)
          /\ \A k \in 1..Len(queries) :
                DOMAIN queries[k] \subseteq {"q", "reference", "seller"}
          /\ Len(chunks) = CeilDiv(Len(queries), chunksize)
          /\ Flatten(chunks) = queries

C15_Witness ==
    /\ pc = "returned"
    /\ Len(calls) >= 2
    /\ specs /\ ~imagesets /\ descriptions
    /\ calls[2].specs /\ ~calls[2].imagesets /\ calls[2].descriptions

\* C16: every query carries a reference and a search term both equal to the
\* identifier it was built from; it carries a seller exactly when sellers
\* was supplied, and then the seller it was paired with.
C16_QueryFields ==
    Built =>
        \A k \in 1..Len(queries) :
            /\ queries[k].q \in Range(mpns)
            /\ queries[k].reference = queries[k].q
            /\ ("seller" \in DOMAIN queries[k]) <=> sellers.given
            /\ sellers.given =>
                  queries[k].seller =
                      sellers.value[((k - 1) % Len(sellers.value)) + 1]

C16_Witness ==
    /\ Built
    /\ mpns = <<"B", "A">>
    /\ sellers = GivenSellers(<<"Y", "X">>)
    /\ Len(queries) = 4
    /\ queries[2] = [q |-> "B", seller |-> "X", reference |-> "B"]

\* C17: a result entry carrying an error marker is handled like any other:
\* match does not raise, and the entry is returned unaltered at the position
\* of the query it answers.
C17_ErrorEntriesPassThrough ==
    behaviour = "error" =>
        /\ pc # "raised"
        /\ ~AnyChunkRaised
        /\ pc = "returned" =>
              /\ Len(result[1]) = Len(queries)
              /\ \A i \in 1..Len(queries) :
                    /\ result[1][i] = PartsMatchResult(Entry(queries[i], "error"))
                    /\ result[1][i].json.error <=> (queries[i].q \in ErrorIds)

C17_Witness ==
    /\ pc = "returned"
    /\ behaviour = "error"
    /\ Len(result[1]) >= 3
    /\ result[1][1].json.error
    /\ ~result[1][Len(result[1])].json.error

\* C18: a chunk request that has been dispatched is never cancelled or
\* abandoned, whatever happens to its siblings: while in flight its future
\* holds no outcome, once finished it holds the outcome of its own call, and
\* match does not end before it has finished.
C18_NoCancellation ==
    /\ \A i \in 1..Len(fstate) :
          /\ fstate[i] # "FINISHED" => fresult[i] = None /\ fexc[i] = None
          /\ fstate[i] = "FINISHED" =>
                IF ClientRaises(chunks[i], bad)
                THEN fexc[i] = Some(ClientError(chunks[i])) /\ fresult[i] = None
                ELSE fresult[i] = Some(ClientMatch(chunks[i], behaviour))
                         /\ fexc[i] = None
    /\ Ended => \A i \in 1..Len(fstate) : fstate[i] = "FINISHED"

C18_Witness ==
    \E i, j \in 1..Len(fstate) :
        /\ i < j
        /\ fexc[j] # None
        /\ fstate[i] = "RUNNING"
        /\ ~ClientRaises(chunks[i], bad)

\* C19: a single identifier without sellers gives one query whose reference
\* is that identifier, one chunk and one call, and the returned list is as
\* long as the one response's entry list (1 for a well-behaved collaborator).
C19_SingleIdentifier ==
    (Built /\ Len(mpns) = 1 /\ ~sellers.given) =>
        /\ queries = <<[q |-> mpns[1], reference |-> mpns[1]]>>
        /\ chunks = <<queries>>
        /\ Len(calls) <= 1
        /\ Ended => Len(calls) = 1 /\ calls[1].queries = queries
        /\ pc = "returned" =>
              /\ Len(result[1]) = Len(ClientMatch(chunks[1], behaviour).results)
              /\ OneEntryPerQuery =>
                    /\ Len(result[1]) = 1
                    /\ result[1][1].json.reference = mpns[1]

C19_Witness ==
    /\ pc = "returned"
    /\ mpns = <<"A">>
    /\ ~sellers.given
    /\ chunksize >= 1
    /\ behaviour = "faithful"
    /\ Len(calls) = 1
    /\ Len(result[1]) = 1
    /\ result[1][1].json.reference = "A"

\* C20: one identifier and k sellers give k queries with the identifier as
\* reference, differing only in seller and in the sellers' order; against a
\* faithful collaborator match returns k entries in that order, each with
\* the identifier as reference.
C20_OneIdentifierManySellers ==
    (Built /\ Len(mpns) = 1 /\ sellers.given) =>
        /\ Len(queries) = Len(sellers.value)
        /\ \A k \in 1..Len(queries) :
              queries[k] = [q |-> mpns[1], seller |-> sellers.value[k],
                            reference |-> mpns[1]]
        /\ (pc = "returned" /\ behaviour = "faithful") =>
              /\ Len(result[1]) = Len(sellers.value)
              /\ \A k \in 1..Len(result[1]) :
                    /\ result[1][k].json.reference = mpns[1]
                    /\ result[1][k].json.items = <<queries[k]>>

C20_Witness ==
    /\ pc = "returned"
    /\ mpns = <<"A">>
    /\ sellers = GivenSellers(<<"X", "Y">>)
    /\ chunksize = 1
    /\ behaviour = "faithful"
    /\ Len(result[1]) = 2
    /\ result[1][2].json.items[1].seller = "Y"

C22_PartitionByPosition ==
    Built =>
        LET N == Len(queries)
            K == chunksize
        IN  /\ Flatten(chunks) = queries
            /\ \A c \in 1..Len(chunks) :
                  /\ Len(chunks[c]) = Min(K, N - (c - 1) * K)
                  /\ \A j \in 1..Len(chunks[c]) :
                        chunks[c][j] = queries[(c - 1) * K + j]

C22_Witness ==
    /\ Built
    /\ chunksize = 3
    /\ Len(queries) = 4
    /\ Len(chunks) = 2
    /\ chunks[1][2].q # chunks[1][3].q
    /\ chunks[1][3].q = chunks[2][1].q

\* C23: no call to client.match carries more queries than the batch size,
\* and none carries no query.
C23_RequestSize ==
    \A k \in 1..Len(calls) : Len(calls[k].queries) \in 1..chunksize

C23_Witness ==
    /\ Ended
    /\ chunksize = 3
    /\ Len(calls) = 2
    /\ Len(calls[1].queries) = 3
    /\ Len(calls[2].queries) = 1

\* number of entries in the responses of the futures before the i-th
RECURSIVE EntriesBefore(_)
EntriesBefore(i) ==
    IF i <= 1 THEN 0
    ELSE EntriesBefore(i - 1) + Len(fresult[i - 1][1].results)

\* C24: match validates no response: when no chunk raised it returns, and
\* the list is each response's entries, in the response's order, laid end
\* to end in chunk submission order, also when a response has fewer or more
\* entries than its chunk has queries.
C24_NoValidation ==
    /\ (Ended /\ ~AnyChunkRaised) => pc = "returned"
    /\ pc = "returned" =>
          /\ Len(result[1]) = EntriesBefore(Len(chunks) + 1)
          /\ \A i \in 1..Len(chunks) :
                \A k \in 1..Len(fresult[i][1].results) :
                    /\ result[1][EntriesBefore(i) + k].class = "PartsMatchResult"
                    /\ result[1][EntriesBefore(i) + k].json = fresult[i][1].results[k]
          /\ behaviour = "short" => Len(result[1]) = Len(queries) - Len(chunks)
          /\ behaviour = "long" => Len(result[1]) = Len(queries) + Len(chunks)

C24_Witness ==
    /\ pc = "returned"
    /\ behaviour = "short"
    /\ Len(chunks) = 2
    /\ Len(queries) = 4
    /\ Len(result[1]) = 2

\* C25: the queries client.match receives are, field for field, the queries
\* match built, the query list never changes once built (for as long as the
\* call and its outcome last, that is until the caller calls match again),
\* and each returned result wraps an entry exactly as a response held it.
C25_NothingRewritten ==
    /\ [](/\ Flatten([k \in 1..Len(calls) |-> calls[k].queries])
                = SubSeq(queries, 1, Len(Flatten([k \in 1..Len(calls) |-> calls[k].queries])))
          /\ pc = "returned" =>
                \A i \in 1..Len(result[1]) :
                    \E c \in 1..Len(fresult) :
                        /\ fresult[c] # None
                        /\ \E k \in 1..Len(fresult[c][1].results) :
                              result[1][i].json = fresult[c][1].results[k])
    /\ [][(Built /\ pc' # "call") => (queries' = queries /\ chunks' = chunks)]_vars

C25_Witness ==
    /\ pc = "returned"
    /\ Len(calls) = 2
    /\ Len(queries) = 4
    /\ calls[2].queries[2] = queries[4]
    /\ result[1][4].json = fresult[2][1].results[2]

\* C26: the chunk requests of one match call share only the client: every
\* call goes through the one client instance match created, each query
\* position lies in exactly one chunk, and each future holds the response
\* to its own chunk.
C26_OnlyClientShared ==
    /\ Len(call_clients) = Len(calls)
    /\ \A k \in 1..Len(call_clients) :
          client # None /\ call_clients[k] = client[1]
    /\ Built =>
          \A n \in 1..Len(queries) :
              Cardinality({c \in 1..Len(chunks) :
                  (c - 1) * chunksize < n /\ n <= (c - 1) * chunksize + Len(chunks[c])}) = 1
    /\ \A i \in 1..Len(fresult) :
          fresult[i] # None => fresult[i][1] = ClientMatch(chunks[i], behaviour)

C26_Witness ==
    /\ Len(call_clients) = 4
    /\ Cardinality(Running(fstate)) = 2
    /\ \E i \in 1..Len(fresult) : fresult[i] # None
    /\ \A i, j \in 1..Len(chunks) : i # j => chunks[i] # chunks[j]

\* chunks on which the collaborator raises, by submission index
FailingChunks == {i \in 1..Len(chunks) : ClientRaises(chunks[i], bad)}

\* C27: when match raises, the error is that of the failing chunk earliest
\* in submission order, whatever the order in which the chunks failed.
C27_EarliestFailureRaised ==
    pc = "raised" =>
        /\ FailingChunks # {}
        /\ LET first == CHOOSE i \in FailingChunks : \A j \in FailingChunks : i <= j
           IN  error = Some(ClientError(chunks[first]))

C27_Witness ==
    /\ pc = "raised"
    /\ Cardinality(FailingChunks) >= 2
    /\ \A i, j \in FailingChunks : i # j => ClientError(chunks[i]) # ClientError(chunks[j])
    /\ 1 \notin FailingChunks
    /\ \A i \in FailingChunks : fexc[i] # None

\* C28: under fair scheduling, and with every request returning or raising,
\* a call of match returns or raises, also when there are more chunks than
\* pool workers.
C28_MatchTerminates == (pc = "call") ~> Ended

C28_Witness ==
    /\ Ended
    /\ Len(chunks) > MAX_REQUEST_THREADS
    /\ AllFinished
    /\ Len(calls) = Len(chunks)

\* number of positions of seq holding x
Occurrences(seq, x) == Cardinality({k \in 1..Len(seq) : seq[k] = x})

\* C29: sellers are not deduplicated: with sellers given, each distinct
\* identifier gets one query per position of the seller list, so the query
\* count is the number of distinct identifiers times the length of the list.
C29_SellersNotDeduplicated ==
    (Built /\ sellers.given) =>
        /\ Len(queries) = Cardinality(Range(mpns)) * Len(sellers.value)
        /\ \A id \in Range(mpns) : \A s \in Range(sellers.value) :
              Cardinality({k \in 1..Len(queries) :
                  queries[k].q = id /\ queries[k].seller = s})
                  = Occurrences(sellers.value, s)

C29_Witness ==
    /\ Built
    /\ sellers.given
    /\ Len(sellers.value) = 2
    /\ sellers.value[1] = sellers.value[2]
    /\ Len(mpns) = 3
    /\ Cardinality(Range(mpns)) = 2
    /\ Len(queries) = 4

\* what match builds and dispatches for the identifier list m, the other
\* arguments being those of the run
QueriesOf(m) == BuildQueries(UniqueMpns(m), sellers)

ChunksOf(m) == MatchChunks(QueriesOf(m), chunksize)

\* C30: for the identifier list L of the run, the queries and the chunks
\* match built are those it builds for unique(L) and for L followed by L.
C30_DedupIdempotent ==
    Built =>
        /\ queries = QueriesOf(unique(mpns))
        /\ queries = QueriesOf(mpns \o mpns)
        /\ chunks = ChunksOf(unique(mpns))
        /\ chunks = ChunksOf(mpns \o mpns)

C30_Witness ==
    /\ Built
    /\ mpns = <<"B", "A", "B">>
    /\ unique(mpns) # mpns
    /\ Len(chunks) = 2
    /\ chunks = ChunksOf(<<"B", "A", "B", "B", "A", "B">>)

\* the earlier calls of match in this run that had the arguments of the
\* current one
EarlierSameInputs ==
    {h \in 1..Len(history) :
        history[h].mpns = mpns /\ history[h].sellers = sellers}

\* C31: a call of match with the arguments of an earlier call, against the
\* same collaborator, builds the same chunks, makes the same requests and
\* ends with the same result or error, whatever calls came between and
\* however their chunks interleaved; when a call has ended none of its
\* futures is pending or running.
C31_NoStateBetweenCalls ==
    /\ Ended => \A i \in 1..Len(fstate) : fstate[i] = "FINISHED"
    /\ \A h \in EarlierSameInputs :
          /\ Built => chunks = history[h].chunks
          /\ Ended =>
                /\ calls = history[h].calls
                /\ result = history[h].result
                /\ error = history[h].error

C31_Witness ==
    /\ pc = "returned"
    /\ Len(history) = 2
    /\ EarlierSameInputs = {1}
    /\ history[2].error # None
    /\ history[1].error = None
    /\ Len(chunks) = 2
    /\ Len(result[1]) = 2
    /\ Len(history[2].chunks) = 4

====
